---- MODULE Spec2Model ----
(***************************************************************************)
(* Model of src/index.ts: the call-tool handler of the image-gen server,   *)
(* its argument validators, payload construction, output directory         *)
(* handling and result materialisation.                                    *)
(*                                                                         *)
(* JavaScript values are records tagged by "t".  Numbers are kept in       *)
(* tenths (Dec(3, 5) is 3.5) so that the fractional defaults 3.5 and 0.7   *)
(* and the denoising range [0,1] are exact.  Strings are sequences of      *)
(* one-character strings; a few fixed literals ("upscaled_", "sd_",        *)
(* ".png", "Steps:", "Negative prompt:") are single tokens.                *)
(***************************************************************************)
EXTENDS Integers, Sequences, FiniteSets, TLC

\* ------------------------------------------------------------ bounds

\* longest images list the remote service returns
MaxResp == 2

\* longest images list a caller passes to upscale_images
MaxImages == 2

\* ------------------------------------------------------------ JS values

\* w + f/10 as a count of tenths
Dec(w, f) == w * 10 + f

Undefined == [t |-> "undefined"]
Null == [t |-> "null"]
Bool(b) == [t |-> "boolean", b |-> b]
Num(n) == [t |-> "number", n |-> n]
NaN == [t |-> "number", nan |-> TRUE]
Str(s) == [t |-> "string", s |-> s]
Arr(a) == [t |-> "array", a |-> a]

IsNaN(v) == v = NaN

\* typeof v
TypeOf(v) ==
  IF v.t \in {"null", "array"} THEN "object" ELSE v.t

\* the truthiness the operators ||, ?: and !! test
Truthy(v) ==
  CASE v.t = "undefined" -> FALSE
    [] v.t = "null" -> FALSE
    [] v.t = "boolean" -> v.b
    [] v.t = "number" -> v # NaN /\ v.n # 0
    [] v.t = "string" -> v.s # << >>
    [] OTHER -> TRUE

\* a || d
OrElse(v, d) == IF Truthy(v) THEN v ELSE d

\* a ?? d
Nullish(v, d) == IF v.t \in {"undefined", "null"} THEN d ELSE v

\* !!a
NotNot(v) == Bool(Truthy(v))

\* ------------------------------------------------------------ strings

WhiteSpace == {" ", "NL"}
Digits == {"0", "1", "2", "3", "4", "5", "6", "7", "8", "9"}

DigitVal(c) ==
  CASE c = "0" -> 0 [] c = "1" -> 1 [] c = "2" -> 2 [] c = "3" -> 3
    [] c = "4" -> 4 [] c = "5" -> 5 [] c = "6" -> 6 [] c = "7" -> 7
    [] c = "8" -> 8 [] c = "9" -> 9

RECURSIVE TrimStart(_)
TrimStart(s) ==
  IF s # << >> /\ Head(s) \in WhiteSpace THEN TrimStart(Tail(s)) ELSE s

RECURSIVE TrimEnd(_)
TrimEnd(s) ==
  IF s # << >> /\ s[Len(s)] \in WhiteSpace
  THEN TrimEnd(SubSeq(s, 1, Len(s) - 1)) ELSE s

\* String.prototype.trim
Trim(s) == TrimEnd(TrimStart(s))

RECURSIVE DigitsValue(_, _)
DigitsValue(s, acc) ==
  IF s = << >> THEN acc ELSE DigitsValue(Tail(s), acc * 10 + DigitVal(Head(s)))

AllDigits(s) == s # << >> /\ \A i \in 1..Len(s) : s[i] \in Digits

\* Number(<string>) for strings over digits, sign, white space and letters
StringToNumber(s) ==
  LET b == Trim(s) IN
  IF b = << >> THEN Num(0)
  ELSE IF AllDigits(b) THEN Num(Dec(DigitsValue(b, 0), 0))
  ELSE IF Head(b) = "-" /\ AllDigits(Tail(b))
       THEN Num(0 - Dec(DigitsValue(Tail(b), 0), 0))
  ELSE IF Head(b) = "+" /\ AllDigits(Tail(b))
       THEN Num(Dec(DigitsValue(Tail(b), 0), 0))
  ELSE NaN

\* Number(v)
ToNumber(v) ==
  CASE v.t = "undefined" -> NaN
    [] v.t = "null" -> Num(0)
    [] v.t = "boolean" -> IF v.b THEN Num(Dec(1, 0)) ELSE Num(0)
    [] v.t = "number" -> v
    [] v.t = "string" -> StringToNumber(v.s)
    [] v.t = "array" ->
         IF v.a = << >> THEN Num(0)
         ELSE IF Len(v.a) = 1 /\ v.a[1].t = "string" THEN StringToNumber(v.a[1].s)
         ELSE NaN
    [] OTHER -> NaN

RECURSIVE SplitComma(_)
\* s.split(',')
SplitComma(s) ==
  IF \A k \in 1..Len(s) : s[k] # "," THEN << s >>
  ELSE LET k == CHOOSE k \in 1..Len(s) : s[k] = "," /\ \A j \in 1..(k - 1) : s[j] # ","
       IN << SubSeq(s, 1, k - 1) >> \o SplitComma(SubSeq(s, k + 1, Len(s)))

\* ------------------------------------------------------------ path

RECURSIVE SplitSlash(_, _)
\* s.split("/"), with cur the segment being read
SplitSlash(s, cur) ==
  IF s = << >> THEN << cur >>
  ELSE IF Head(s) = "/" THEN << cur >> \o SplitSlash(Tail(s), << >>)
  ELSE SplitSlash(Tail(s), Append(cur, Head(s)))

RECURSIVE JoinSlash(_)
JoinSlash(segs) ==
  IF segs = << >> THEN << >>
  ELSE IF Len(segs) = 1 THEN segs[1]
  ELSE segs[1] \o << "/" >> \o JoinSlash(Tail(segs))

DotDot == << ".", "." >>

RECURSIVE normalizeSegments(_, _, _)
\* normalizeString of node's path module: drops "" and ".", resolves ".."
normalizeSegments(segs, out, allowAboveRoot) ==
  IF segs = << >> THEN out
  ELSE LET g == Head(segs) IN
    IF g = << >> \/ g = << "." >>
    THEN normalizeSegments(Tail(segs), out, allowAboveRoot)
    ELSE IF g = DotDot
    THEN IF out # << >> /\ out[Len(out)] # DotDot
         THEN normalizeSegments(Tail(segs), SubSeq(out, 1, Len(out) - 1), allowAboveRoot)
         ELSE IF allowAboveRoot
         THEN normalizeSegments(Tail(segs), Append(out, g), allowAboveRoot)
         ELSE normalizeSegments(Tail(segs), out, allowAboveRoot)
    ELSE normalizeSegments(Tail(segs), Append(out, g), allowAboveRoot)

\* path.normalize
normalize(p) ==
  IF p = << >> THEN << "." >>
  ELSE LET isAbsolute == Head(p) = "/"
           trailingSeparator == p[Len(p)] = "/"
           body == JoinSlash(normalizeSegments(SplitSlash(p, << >>), << >>, ~isAbsolute))
       IN IF body = << >>
          THEN IF isAbsolute THEN << "/" >>
               ELSE IF trailingSeparator THEN << ".", "/" >> ELSE << "." >>
          ELSE (IF isAbsolute THEN << "/" >> ELSE << >>) \o body
               \o (IF trailingSeparator THEN << "/" >> ELSE << >>)

\* path.join(a, b)
join(a, b) ==
  LET joined == IF a = << >> THEN b
                ELSE IF b = << >> THEN a
                ELSE a \o << "/" >> \o b
  IN normalize(joined)

RECURSIVE StripTrailingSlashes(_)
StripTrailingSlashes(p) ==
  IF p # << >> /\ p[Len(p)] = "/"
  THEN StripTrailingSlashes(SubSeq(p, 1, Len(p) - 1)) ELSE p

\* path.basename
basename(p) ==
  LET q == StripTrailingSlashes(p)
      segs == SplitSlash(q, << >>)
  IN segs[Len(segs)]

\* the directories a path names, outermost first: what mkdir with
\* recursive: true creates, and the key under which the file system holds it
PathPrefixes(p) ==
  LET n == normalize(p)
      isAbsolute == Head(n) = "/"
      segs == normalizeSegments(SplitSlash(n, << >>), << >>, ~isAbsolute)
  IN [i \in 1..Len(segs) |->
        (IF isAbsolute THEN << "/" >> ELSE << >>) \o JoinSlash(SubSeq(segs, 1, i))]

\* the canonical name of directory p ("." and "/" for the roots)
DirKey(p) ==
  LET pre == PathPrefixes(p)
  IN IF pre = << >> THEN (IF Head(normalize(p)) = "/" THEN << "/" >> ELSE << "." >>)
     ELSE pre[Len(pre)]

\* the directory holding file p
dirname(p) ==
  LET pre == PathPrefixes(p)
  IN IF Len(pre) <= 1 THEN (IF Head(normalize(p)) = "/" THEN << "/" >> ELSE << "." >>)
     ELSE pre[Len(pre) - 1]

\* ------------------------------------------------------------ arguments

\* every property name the handler or a validator reads from the arguments
AllFields ==
  { "prompt", "negative_prompt", "steps", "width", "height", "cfg_scale",
    "sampler_name", "scheduler_name", "seed", "batch_size", "restore_faces",
    "tiling", "output_path", "distilled_cfg_scale",
    "model_name",
    "images", "resize_mode", "upscaling_resize", "upscaling_resize_w",
    "upscaling_resize_h", "upscaler_1", "upscaler_2",
    "image_path", "hr_scale", "hr_upscaler", "denoising_strength" }

\* an object with the given properties; an absent property reads undefined
Object(p) == [t |-> "object", p |-> p]

EmptyObject == Object([k \in AllFields |-> Undefined])

\* value.k
Prop(v, k) == IF v.t = "object" THEN v.p[k] ELSE Undefined

\* value.k = x
SetProp(v, k, x) == [v EXCEPT !.p[k] = x]

\* the upper bound taken as exclusive
OutOfRangeExclusive(n, lo, hi) == IsNaN(n) \/ n.n < lo \/ n.n >= hi

\* isNaN(n) || n < lo || n > hi
OutOfRange(n, lo, hi) == IsNaN(n) \/ n.n < lo \/ n.n > hi

\* isNaN(n) || n < lo
BelowMin(n, lo) == IsNaN(n) \/ n.n < lo

\* typeof value !== 'object' || value === null
NotAnObject(v) == TypeOf(v) # "object" \/ v = Null

\* k !== undefined && typeof k !== 'string'
DefinedNonString(v, k) == Prop(v, k) # Undefined /\ TypeOf(Prop(v, k)) # "string"

\* ------------------------------------------------------------ validators
\* Each validator yields [ok, value]: its verdict and the argument object as
\* it leaves the call (isGenerateImageArgs assigns the coerced numbers).

isGenerateImageArgs(value) ==
  IF NotAnObject(value) THEN [ok |-> FALSE, value |-> value]
  ELSE IF TypeOf(Prop(value, "prompt")) # "string" THEN [ok |-> FALSE, value |-> value]
  ELSE IF DefinedNonString(value, "negative_prompt") THEN [ok |-> FALSE, value |-> value]
  ELSE LET steps == ToNumber(Prop(value, "steps"))
           hasSteps == Prop(value, "steps") # Undefined
           v1 == IF hasSteps THEN SetProp(value, "steps", steps) ELSE value
           batchSize == ToNumber(Prop(value, "batch_size"))
           hasBatch == Prop(value, "batch_size") # Undefined
       IN IF hasSteps /\ OutOfRange(steps, Dec(1, 0), Dec(150, 0))
          THEN [ok |-> FALSE, value |-> value]
          ELSE IF hasBatch /\ OutOfRange(batchSize, Dec(1, 0), Dec(4, 0))
          THEN [ok |-> FALSE, value |-> v1]
          ELSE [ok |-> TRUE,
                value |-> IF hasBatch THEN SetProp(v1, "batch_size", batchSize) ELSE v1]

isSetModelArgs(value) ==
  IF NotAnObject(value) THEN [ok |-> FALSE, value |-> value]
  ELSE [ok |-> TypeOf(Prop(value, "model_name")) = "string", value |-> value]

\* Array.isArray(v.images) && v.images.every(img => typeof img === 'string')
IsStringArray(v) ==
  v.t = "array" /\ \A i \in 1..Len(v.a) : TypeOf(v.a[i]) = "string"

\* v.k !== undefined and Number(v.k) is NaN or below 1
BadMinOne(value, k) ==
  Prop(value, k) # Undefined /\ BelowMin(ToNumber(Prop(value, k)), Dec(1, 0))

isUpscaleImagesArgs(value) ==
  IF NotAnObject(value) THEN [ok |-> FALSE, value |-> value]
  ELSE [ok |->
          /\ IsStringArray(Prop(value, "images"))
          /\ \/ Prop(value, "resize_mode") = Undefined
             \/ /\ TypeOf(Prop(value, "resize_mode")) = "string"
                /\ Prop(value, "resize_mode").s \in { << "0" >>, << "1" >> }
          /\ ~BadMinOne(value, "upscaling_resize")
          /\ ~BadMinOne(value, "upscaling_resize_w")
          /\ ~BadMinOne(value, "upscaling_resize_h")
          /\ ~DefinedNonString(value, "upscaler_1")
          /\ ~DefinedNonString(value, "upscaler_2")
          /\ ~DefinedNonString(value, "output_path"),
        value |-> value]

isHiresFixImageArgs(value) ==
  IF NotAnObject(value) THEN [ok |-> FALSE, value |-> value]
  ELSE [ok |->
          /\ TypeOf(Prop(value, "image_path")) = "string"
          /\ \/ Prop(value, "hr_scale") = Undefined
             \/ ~OutOfRange(ToNumber(Prop(value, "hr_scale")), Dec(1, 0), Dec(4, 0))
          /\ ~DefinedNonString(value, "hr_upscaler")
          /\ \/ Prop(value, "denoising_strength") = Undefined
             \/ ~OutOfRange(ToNumber(Prop(value, "denoising_strength")), 0, Dec(1, 0))
          /\ \/ Prop(value, "steps") = Undefined
             \/ ~OutOfRange(ToNumber(Prop(value, "steps")), Dec(1, 0), Dec(150, 0)),
        value |-> value]

\* ------------------------------------------------------------ configuration
\* The process environment is left unset, so every setting is its default.

DEFAULT_OUTPUT_DIR == << ".", "/", "output" >>
SD_RESIZE_MODE == Num(Dec(0, 0))
SD_UPSCALE_MULTIPLIER == Num(Dec(4, 0))
SD_UPSCALE_WIDTH == Num(Dec(512, 0))
SD_UPSCALE_HEIGHT == Num(Dec(512, 0))
SD_UPSCALER_1 == Str(<< "R-ESRGAN 4x+" >>)
SD_UPSCALER_2 == Str(<< "None" >>)

\* ------------------------------------------------------------ payloads

\* the body posted to /sdapi/v1/txt2img
SDAPIPayload(args) ==
  [ prompt |-> Prop(args, "prompt"),
    negative_prompt |-> OrElse(Prop(args, "negative_prompt"), Str(<< >>)),
    steps |-> OrElse(Prop(args, "steps"), Num(Dec(20, 0))),
    width |-> OrElse(Prop(args, "width"), Num(Dec(1024, 0))),
    height |-> OrElse(Prop(args, "height"), Num(Dec(1024, 0))),
    cfg_scale |-> OrElse(Prop(args, "cfg_scale"), Num(Dec(7, 0))),
    sampler_name |-> OrElse(Prop(args, "sampler_name"), Str(<< "Euler" >>)),
    seed |-> Nullish(Prop(args, "seed"), Num(0 - Dec(1, 0))),
    n_iter |-> OrElse(Prop(args, "batch_size"), Num(Dec(1, 0))),
    distilled_cfg_scale |-> OrElse(Prop(args, "distilled_cfg_scale"), Num(Dec(3, 5))),
    scheduler |-> OrElse(Prop(args, "scheduler_name"), Str(<< "Simple" >>)),
    tiling |-> NotNot(Prop(args, "tiling")),
    restore_faces |-> NotNot(Prop(args, "restore_faces")) ]

\* one element of imageList: the file's content and its base name
EncodedImage(imagePath) ==
  [ data |-> Str(<< "base64:" >> \o imagePath), name |-> Str(basename(imagePath)) ]

\* args.resize_mode !== undefined ? Number(args.resize_mode) : SD_RESIZE_MODE
\* the supplied resize_mode passed on as it came
resizeModeAsGiven(args) ==
  IF Prop(args, "resize_mode") # Undefined
  THEN Prop(args, "resize_mode") ELSE SD_RESIZE_MODE

resizeModeNum(args) ==
  IF Prop(args, "resize_mode") # Undefined
  THEN ToNumber(Prop(args, "resize_mode")) ELSE SD_RESIZE_MODE

\* the body posted to /sdapi/v1/extra-batch-images
UpscaleImagePayload(args) ==
  [ resize_mode |-> resizeModeNum(args),
    show_extras_results |-> Bool(TRUE),
    gfpgan_visibility |-> Num(0),
    codeformer_visibility |-> Num(0),
    codeformer_weight |-> Num(0),
    upscaling_resize |-> Nullish(Prop(args, "upscaling_resize"), SD_UPSCALE_MULTIPLIER),
    upscaling_resize_w |-> Nullish(Prop(args, "upscaling_resize_w"), SD_UPSCALE_WIDTH),
    upscaling_resize_h |-> Nullish(Prop(args, "upscaling_resize_h"), SD_UPSCALE_HEIGHT),
    upscaling_crop |-> Bool(TRUE),
    upscaler_1 |-> Nullish(Prop(args, "upscaler_1"), SD_UPSCALER_1),
    upscaler_2 |-> Nullish(Prop(args, "upscaler_2"), SD_UPSCALER_2),
    extras_upscaler_2_visibility |-> Num(0),
    upscale_first |-> Bool(FALSE),
    imageList |-> LET imgs == Prop(args, "images").a
                  IN [i \in 1..Len(imgs) |-> EncodedImage(imgs[i].s)] ]

\* Math.round(a * b) of two values, each coerced as * coerces it
RoundedProduct(a, b) ==
  LET x == ToNumber(a)
      y == ToNumber(b)
  IN IF IsNaN(x) \/ IsNaN(y) THEN NaN
     ELSE Num(Dec((x.n * y.n + 50) \div 100, 0))

\* Math.round((metadata.<side> || 1024) * (args.hr_scale || 2))
targetSize(side, args) ==
  RoundedProduct(OrElse(side, Num(Dec(1024, 0))),
                 OrElse(Prop(args, "hr_scale"), Num(Dec(2, 0))))

\* the least k >= 1 with "\nNegative prompt:" or "Steps:" right after the
\* first k characters, 0 when there is none: /^(.+?)(?:\nNegative prompt:|Steps:)/s
promptMatch(infoText) ==
  LET marks == { k \in 1..Len(infoText) - 1 :
                   \/ infoText[k + 1] = "Steps:"
                   \/ /\ k + 2 <= Len(infoText)
                      /\ infoText[k + 1] = "NL"
                      /\ infoText[k + 2] = "Negative prompt:" }
  IN IF marks = {} THEN 0 ELSE CHOOSE k \in marks : \A j \in marks : k <= j

\* the try block that recovers the prompt from a png-info response body;
\* a TypeError in it lands in the catch block, which yields ''
extractPrompt(data) ==
  IF data.t \in {"undefined", "null"} THEN << >>
  ELSE LET infoText == OrElse(data.info, Str(<< >>))
       IN IF infoText.t # "string" THEN << >>
          ELSE LET k == promptMatch(infoText.s)
               IN IF k = 0 THEN << >> ELSE Trim(SubSeq(infoText.s, 1, k))

\* the body posted to /sdapi/v1/img2img
Img2ImgPayload(args, base64Image, prompt, targetWidth, targetHeight) ==
  [ init_images |-> << base64Image >>,
    prompt |-> Str(prompt),
    negative_prompt |-> Str(<< >>),
    steps |-> OrElse(Prop(args, "steps"), Num(Dec(20, 0))),
    cfg_scale |-> Num(Dec(7, 0)),
    width |-> targetWidth,
    height |-> targetHeight,
    denoising_strength |-> OrElse(Prop(args, "denoising_strength"), Num(Dec(0, 7))),
    sampler_name |-> Str(<< "Euler" >>),
    scheduler |-> Str(<< "Simple" >>) ]

\* ------------------------------------------------------------ errors

McpError(code, message) ==
  [ kind |-> "McpError", code |-> code, message |-> << "MCP error", code >> \o message ]

\* an error of the HTTP client: the server answered with an error
\* ("response"), no answer came ("request"), or the request was never sent
AxiosError(shape) == [ kind |-> "AxiosError", shape |-> shape, message |-> << "axios" >> ]

AxiosShapes == { "response", "request", "setup" }

\* any other Error: a TypeError, a file system error, new Error(...)
Error(message) == [ kind |-> "Error", message |-> message ]

InvalidParams == McpError("InvalidParams", << "Invalid parameters" >>)

\* the catch block of the call-tool handler: what it throws for a caught error
catchBlock(error) ==
  IF error.kind = "AxiosError"
  THEN McpError("InternalError",
         IF error.shape = "response" THEN << "API error" >> \o error.message
         ELSE IF error.shape = "request" THEN << "No response" >> \o error.message
         ELSE << "Request error" >> \o error.message)
  ELSE McpError("InternalError", error.message)

\* ------------------------------------------------------------ state

VARIABLES
  call,       \* per call-tool request: the handler's position and locals
  img2img,    \* per request: the state of its background img2img request
  unhandled,  \* rejections that reached the unhandledRejection listener
  dirs,       \* the directories that exist, by canonical name
  files,      \* the files the server has written
  uuids       \* randomUUID values handed out

vars == << call, img2img, unhandled, dirs, files, uuids >>

\* the request slots: one request at a time in Spec
Calls == { 1, 2 }

ToolNames ==
  { "generate_image", "get_sd_models", "set_sd_model", "get_sd_upscalers",
    "upscale_images", "hires_fix_image" }

Idle ==
  [ pc |-> "idle", name |-> "", arguments |-> Undefined, args |-> Undefined,
    rejected |-> FALSE, response |-> Undefined,
    outputDir |-> << >>, payload |-> Undefined, images |-> << >>, i |-> 0,
    outputPath |-> << >>, info |-> Undefined, metadata |-> Undefined,
    results |-> << >>, writes |-> << >>, io |-> << >>,
    thrown |-> Undefined, result |-> Undefined ]

\* the roots always exist
DirExists(p) == DirKey(p) \in dirs \union { << "." >>, << "/" >> }

\* the handler leaves through its catch block with `error` caught
Throw(cr, error) ==
  [cr EXCEPT !.pc = "done", !.thrown = error,
             !.result = [ok |-> FALSE, error |-> catchBlock(error)]]

\* the handler returns { content: [{ type: 'text', text }] }
Return(cr, text) ==
  [cr EXCEPT !.pc = "done", !.result = [ok |-> TRUE, text |-> text]]

\* an I/O operation is issued and the handler awaits it at `pc`
Await(cr, op, pc) == [cr EXCEPT !.pc = pc, !.io = Append(@, op)]

Set(c, cr) == call' = [call EXCEPT ![c] = cr]

\* the handler is entered with request.params = { name, arguments }
Request(cr, name, arguments) ==
  [cr EXCEPT !.name = name, !.arguments = arguments, !.args = arguments]

Init ==
  /\ call = [c \in Calls |-> Idle]
  /\ img2img = [c \in Calls |-> "none"]
  /\ unhandled = 0
  /\ dirs \in { {}, { << "output" >> }, { << "a" >> } }
  /\ files = {}
  /\ uuids = 0

\* ------------------------------------------------------------ inputs

S(x) == Str(<< x >>)

\* caller values per property; With(base, k, v) is base with property k set
With(base, k, v) == SetProp(base, k, v)

NonObjects == { Undefined, Null, S("x") }

StepsValues ==
  { Undefined, Null, Bool(TRUE), Num(0), Num(Dec(0, 5)), Num(Dec(1, 0)),
    Num(Dec(20, 0)), Num(Dec(150, 0)), Num(Dec(150, 1)), Num(Dec(151, 0)),
    S("0"), Str(<< "1" >>), Str(<< "1", "5", "0" >>), Str(<< "1", "5", "1" >>),
    Str(<< " ", "2", "0", " " >>), Str(<< "a", "b", "c" >>), Str(<< >>) }

BatchValues ==
  { Undefined, Num(0), Num(Dec(1, 0)), Num(Dec(4, 0)), Num(Dec(5, 0)),
    S("4"), S("5"), S("x") }

OutputPaths ==
  { Str(<< "o", "u", "t" >>), Str(<< " ", "a", "/", "b", " " >>),
    Str(<< "a", "/", ".", "/", "b", "/", ".", ".", "/", "c", "/" >>),
    Str(<< "/", "t", "/", "/", "x" >>), Str(<< >>), Str(<< " " >>) }

GenerateImageInputs ==
  NonObjects
  \union { With(With(With(With(EmptyObject, "prompt", p), "negative_prompt", n),
                     "steps", st), "batch_size", b) :
             p \in { S("p"), Undefined }, n \in { Undefined, S("n"), Num(Dec(5, 0)) },
             st \in StepsValues, b \in BatchValues }
  \union { With(With(EmptyObject, "prompt", S("p")), k, v) :
             k \in { "width", "height", "cfg_scale", "seed", "distilled_cfg_scale" },
             v \in { Num(0), Num(Dec(2, 5)), Num(Dec(512, 0)), Null } }
  \union { With(With(EmptyObject, "prompt", S("p")), k, v) :
             k \in { "negative_prompt", "sampler_name", "scheduler_name" },
             v \in { Str(<< >>), S("DDIM") } }
  \union { With(With(EmptyObject, "prompt", S("p")), k, v) :
             k \in { "tiling", "restore_faces" },
             v \in { Bool(TRUE), Bool(FALSE), S("false") } }
  \union { With(With(EmptyObject, "prompt", S("p")), "output_path", v) :
             v \in OutputPaths \union { Num(Dec(5, 0)) } }

SetModelInputs ==
  NonObjects
  \union { With(EmptyObject, "model_name", v) : v \in { Undefined, S("m"), Num(Dec(1, 0)) } }

\* ------------------------------------------------------------ remote answers

\* a returned image: bare base64, or with a data: prefix before a comma
ImageDatas == { << "iVBOR" >>, << "data:image/png;base64", ",", "iVBOR" >> }

\* the lists of at most MaxResp images
ImageLists == UNION { [1..n -> ImageDatas] : n \in 0..MaxResp }

\* response.data of txt2img and extra-batch-images
ImagesBodies ==
  { Null, [t |-> "object", images |-> Undefined] }
  \union { [t |-> "object", images |-> Arr(l)] : l \in ImageLists }

\* !response.data.images: an empty list passes
NoImagesField(data) == data.images.t = "undefined"

\* !response.data.images?.length
NoImages(data) ==
  data.images.t = "undefined" \/ Len(data.images.a) = 0

\* response.data of png-info
PngInfoBodies ==
  { Undefined,
    [t |-> "object", info |-> Undefined],
    [t |-> "object", info |-> Num(Dec(5, 0))],
    [t |-> "object", info |-> Str(<< "a", "b" >>)],
    [t |-> "object", info |-> Str(<< "Steps:", "2" >>)],
    [t |-> "object", info |-> Str(<< " ", "Steps:", "2" >>)],
    [t |-> "object", info |-> Str(<< "a", " ", "Steps:", "2", "NL", "Negative prompt:" >>)],
    [t |-> "object", info |-> Str(<< "a", "NL", "b", " ", "NL", "Negative prompt:", "c",
                                     "NL", "Steps:", "2" >>)] }

\* ------------------------------------------------------------ ensureDirectoryExists

\* mkdir without recursive: only the directory itself
mkdirLeaf(dirPath) == { DirKey(dirPath) }

\* what mkdir(dirPath, { recursive: true }) creates
mkdirRecursive(dirPath) ==
  { PathPrefixes(dirPath)[i] : i \in 1..Len(PathPrefixes(dirPath)) }

\* args.output_path ? path.normalize(args.output_path.trim()) : DEFAULT_OUTPUT_DIR
\* (defined for a string or falsy output_path)
outputDirOf(args) ==
  IF Truthy(Prop(args, "output_path"))
  THEN normalize(Trim(Prop(args, "output_path").s))
  ELSE DEFAULT_OUTPUT_DIR

\* a truthy output_path that has no trim method
OutputPathThrows(args) ==
  Truthy(Prop(args, "output_path")) /\ TypeOf(Prop(args, "output_path")) # "string"

\* the handler from the validated arguments to its first await: the
\* access call of ensureDirectoryExists
StartEnsure(cr, args) ==
  IF OutputPathThrows(args)
  THEN Throw([cr EXCEPT !.args = args], Error(<< "TypeError" >>))
  ELSE Await([cr EXCEPT !.args = args, !.outputDir = outputDirOf(args)],
             "access", "access")

\* what follows ensureDirectoryExists, up to the next await
AfterEnsure(cr) ==
  IF cr.name = "generate_image"
  THEN Await([cr EXCEPT !.payload = SDAPIPayload(cr.args)], "POST txt2img", "txt2img")
  ELSE [cr EXCEPT !.pc = "readFiles",
                  !.io = @ \o [i \in 1..Len(Prop(cr.args, "images").a) |-> "readFile"]]

\* access resolves: the directory is there
AccessFound(c) ==
  /\ call[c].pc = "access"
  /\ DirExists(call[c].outputDir)
  /\ Set(c, AfterEnsure(call[c]))
  /\ UNCHANGED << img2img, unhandled, dirs, files, uuids >>

\* access rejects: the catch block calls mkdir
AccessMissing(c) ==
  /\ call[c].pc = "access"
  /\ ~DirExists(call[c].outputDir)
  /\ Set(c, Await(call[c], "mkdir", "mkdir"))
  /\ UNCHANGED << img2img, unhandled, dirs, files, uuids >>

\* mkdir without recursive rejects with EEXIST when the directory is there
mkdirExclusive(dirPath) == DirExists(dirPath)

\* mkdir(dirPath, { recursive: true }) does not reject an existing directory
mkdirRejectsExisting(dirPath) == FALSE

\* mkdir settles: the directory and its parents are there
MkdirOk(c) ==
  /\ call[c].pc = "mkdir"
  /\ IF mkdirRejectsExisting(call[c].outputDir)
     THEN /\ dirs' = dirs
          /\ Set(c, Throw(call[c], Error(<< "EEXIST" >>)))
     ELSE /\ dirs' = dirs \union mkdirRecursive(call[c].outputDir)
          /\ Set(c, AfterEnsure(call[c]))
  /\ UNCHANGED << img2img, unhandled, files, uuids >>

\* mkdir rejects (no permission, read-only file system)
MkdirFail(c) ==
  /\ call[c].pc = "mkdir"
  /\ Set(c, Throw(call[c], Error(<< "EACCES" >>)))
  /\ UNCHANGED << img2img, unhandled, dirs, files, uuids >>

\* ------------------------------------------------------------ generate_image

\* generate_image with the output directory prepared before the arguments
\* are validated
CallGenerateImageEnsureFirst(c, arguments) ==
  /\ call[c].pc = "idle"
  /\ LET cr == Await(Request(call[c], "generate_image", arguments), "access", "access")
         v == isGenerateImageArgs(arguments)
     IN Set(c, IF ~v.ok THEN Throw([cr EXCEPT !.rejected = TRUE], InvalidParams)
               ELSE [cr EXCEPT !.args = v.value, !.outputDir = DEFAULT_OUTPUT_DIR])
  /\ UNCHANGED << img2img, unhandled, dirs, files, uuids >>

CallGenerateImage(c, arguments) ==
  /\ call[c].pc = "idle"
  /\ LET cr == Request(call[c], "generate_image", arguments)
         v == isGenerateImageArgs(arguments)
     IN Set(c, IF ~v.ok THEN Throw([cr EXCEPT !.rejected = TRUE], InvalidParams)
               ELSE StartEnsure(cr, v.value))
  /\ UNCHANGED << img2img, unhandled, dirs, files, uuids >>

\* imageData.includes(',') ? imageData.split(',')[1] : imageData
base64Data(imageData) ==
  IF \E k \in 1..Len(imageData) : imageData[k] = ","
  THEN SplitComma(imageData)[2] ELSE imageData

\* one round of the loop over response.data.images, up to its png-info await
GenerateIteration(cr, i) ==
  Await([cr EXCEPT !.i = i], "POST png-info", "generate_pnginfo")

Txt2ImgFail(c, shape) ==
  /\ call[c].pc = "txt2img"
  /\ Set(c, Throw(call[c], AxiosError(shape)))
  /\ UNCHANGED << img2img, unhandled, dirs, files, uuids >>

Txt2ImgDone(c, data) ==
  /\ call[c].pc = "txt2img"
  /\ Set(c, IF data = Null
            THEN Throw([call[c] EXCEPT !.response = data], Error(<< "TypeError" >>))
            ELSE IF NoImages(data)
            THEN Throw([call[c] EXCEPT !.response = data], Error(<< "No images generated" >>))
            ELSE GenerateIteration(
                   [call[c] EXCEPT !.response = data, !.images = data.images.a], 1))
  /\ UNCHANGED << img2img, unhandled, dirs, files, uuids >>

GeneratePngInfoFail(c, shape) ==
  /\ call[c].pc = "generate_pnginfo"
  /\ Set(c, Throw(call[c], AxiosError(shape)))
  /\ UNCHANGED << img2img, unhandled, dirs, files, uuids >>

\* the png-info answer arrives: the file name is drawn and sharp starts writing
GeneratePngInfoDone(c, data) ==
  /\ call[c].pc = "generate_pnginfo"
  /\ uuids' = uuids + 1
  /\ LET outputPath == join(call[c].outputDir, << "sd_", ToString(uuids), ".png" >>)
         cr == [call[c] EXCEPT !.outputPath = outputPath]
     IN Set(c, IF data = Undefined THEN Throw(cr, Error(<< "TypeError" >>))
               ELSE Await([cr EXCEPT !.info = data.info], "toFile", "toFile"))
  /\ UNCHANGED << img2img, unhandled, dirs, files >>

ToFileFail(c) ==
  /\ call[c].pc = "toFile"
  /\ Set(c, Throw(call[c], Error(<< "sharp" >>)))
  /\ UNCHANGED << img2img, unhandled, dirs, files, uuids >>

\* the file is written; the loop goes on or the handler returns
ToFileDone(c) ==
  /\ call[c].pc = "toFile"
  /\ DirExists(dirname(call[c].outputPath))
  /\ files' = files \union { call[c].outputPath }
  /\ LET cr == [call[c] EXCEPT
                  !.writes = Append(@, [path |-> call[c].outputPath,
                                        data |-> base64Data(call[c].images[call[c].i])]),
                  !.results = Append(@, [path |-> call[c].outputPath,
                                         parameters |-> call[c].info])]
     IN Set(c, IF cr.i < Len(cr.images) THEN GenerateIteration(cr, cr.i + 1)
               ELSE Return(cr, cr.results))
  /\ UNCHANGED << img2img, unhandled, dirs, uuids >>

\* ------------------------------------------------------------ listings, set_sd_model

\* response.data of sd-models and upscalers: an array of descriptors, or
\* something that has no map method
ListingBodies ==
  { Null, Arr(<< >>),
    Arr(<< [title |-> S("m1"), name |-> S("u1")], [title |-> S("m2"), name |-> S("u2")] >>) }

CallGetSdModels(c, arguments) ==
  /\ call[c].pc = "idle"
  /\ Set(c, Await(Request(call[c], "get_sd_models", arguments),
                  "GET sd-models", "sd-models"))
  /\ UNCHANGED << img2img, unhandled, dirs, files, uuids >>

CallGetSdUpscalers(c, arguments) ==
  /\ call[c].pc = "idle"
  /\ Set(c, Await(Request(call[c], "get_sd_upscalers", arguments),
                  "GET upscalers", "upscalers"))
  /\ UNCHANGED << img2img, unhandled, dirs, files, uuids >>

\* models.map(m => m.title), upscalers.map(u => u.name)
ListingDone(c, data) ==
  /\ call[c].pc \in { "sd-models", "upscalers" }
  /\ Set(c, IF data.t # "array" THEN Throw(call[c], Error(<< "TypeError" >>))
            ELSE Return(call[c],
                   [i \in 1..Len(data.a) |->
                      IF call[c].pc = "sd-models" THEN data.a[i].title ELSE data.a[i].name]))
  /\ UNCHANGED << img2img, unhandled, dirs, files, uuids >>

ListingFail(c, shape) ==
  /\ call[c].pc \in { "sd-models", "upscalers" }
  /\ Set(c, Throw(call[c], AxiosError(shape)))
  /\ UNCHANGED << img2img, unhandled, dirs, files, uuids >>

CallSetSdModel(c, arguments) ==
  /\ call[c].pc = "idle"
  /\ LET cr == Request(call[c], "set_sd_model", arguments)
         v == isSetModelArgs(arguments)
     IN Set(c, IF ~v.ok THEN Throw([cr EXCEPT !.rejected = TRUE], InvalidParams)
               ELSE Await([cr EXCEPT
                             !.payload = [sd_model_checkpoint |-> Prop(v.value, "model_name")]],
                          "POST options", "options"))
  /\ UNCHANGED << img2img, unhandled, dirs, files, uuids >>

OptionsDone(c) ==
  /\ call[c].pc = "options"
  /\ Set(c, Return(call[c], << "Model set to: " >> \o Prop(call[c].args, "model_name").s))
  /\ UNCHANGED << img2img, unhandled, dirs, files, uuids >>

OptionsFail(c, shape) ==
  /\ call[c].pc = "options"
  /\ Set(c, Throw(call[c], AxiosError(shape)))
  /\ UNCHANGED << img2img, unhandled, dirs, files, uuids >>

\* the default case of the switch
CallUnknownTool(c, name, arguments) ==
  /\ call[c].pc = "idle"
  /\ name \notin ToolNames
  /\ Set(c, Throw(Request(call[c], name, arguments),
                  McpError("MethodNotFound", << "Unknown tool: ", name >>)))
  /\ UNCHANGED << img2img, unhandled, dirs, files, uuids >>

\* ------------------------------------------------------------ upscale_images

CallUpscaleImages(c, arguments) ==
  /\ call[c].pc = "idle"
  /\ LET cr == Request(call[c], "upscale_images", arguments)
         v == isUpscaleImagesArgs(arguments)
     IN Set(c, IF ~v.ok THEN Throw([cr EXCEPT !.rejected = TRUE], InvalidParams)
               ELSE StartEnsure(cr, v.value))
  /\ UNCHANGED << img2img, unhandled, dirs, files, uuids >>

\* one of the readFile calls under Promise.all rejects
ReadFilesFail(c) ==
  /\ call[c].pc = "readFiles"
  /\ Len(Prop(call[c].args, "images").a) > 0
  /\ Set(c, Throw(call[c], Error(<< "ENOENT" >>)))
  /\ UNCHANGED << img2img, unhandled, dirs, files, uuids >>

\* every input file is read: the payload is built and posted
ReadFilesDone(c) ==
  /\ call[c].pc = "readFiles"
  /\ Set(c, Await([call[c] EXCEPT !.payload = UpscaleImagePayload(call[c].args)],
                  "POST extra-batch-images", "extra-batch-images"))
  /\ UNCHANGED << img2img, unhandled, dirs, files, uuids >>

\* the loop naming every output after the first input
UpscaleIterationFirstName(cr, i) ==
  LET images == Prop(cr.args, "images").a
  IN IF i > Len(images) THEN Throw([cr EXCEPT !.i = i], Error(<< "TypeError" >>))
     ELSE Await([cr EXCEPT !.i = i,
                           !.outputPath = join(cr.outputDir,
                                               << "upscaled_" >> \o basename(images[1].s))],
                "writeFile", "writeFile")

\* one round of the loop over response.data.images, up to its writeFile
\* await; path.basename(undefined) throws a TypeError
UpscaleIteration(cr, i) ==
  LET images == Prop(cr.args, "images").a
  IN IF i > Len(images) THEN Throw([cr EXCEPT !.i = i], Error(<< "TypeError" >>))
     ELSE Await([cr EXCEPT !.i = i,
                           !.outputPath = join(cr.outputDir,
                                               << "upscaled_" >> \o basename(images[i].s))],
                "writeFile", "writeFile")

ExtraBatchFail(c, shape) ==
  /\ call[c].pc = "extra-batch-images"
  /\ Set(c, Throw(call[c], AxiosError(shape)))
  /\ UNCHANGED << img2img, unhandled, dirs, files, uuids >>

ExtraBatchDone(c, data) ==
  /\ call[c].pc = "extra-batch-images"
  /\ Set(c, IF data = Null
            THEN Throw([call[c] EXCEPT !.response = data], Error(<< "TypeError" >>))
            ELSE IF NoImages(data)
            THEN Throw([call[c] EXCEPT !.response = data], Error(<< "No images upscaled" >>))
            ELSE UpscaleIteration(
                   [call[c] EXCEPT !.response = data, !.images = data.images.a], 1))
  /\ UNCHANGED << img2img, unhandled, dirs, files, uuids >>

WriteFileFail(c) ==
  /\ call[c].pc = "writeFile"
  /\ Set(c, Throw(call[c], Error(<< "EIO" >>)))
  /\ UNCHANGED << img2img, unhandled, dirs, files, uuids >>

WriteFileDone(c) ==
  /\ call[c].pc = "writeFile"
  /\ DirExists(dirname(call[c].outputPath))
  /\ files' = files \union { call[c].outputPath }
  /\ LET cr == [call[c] EXCEPT
                  !.writes = Append(@, [path |-> call[c].outputPath,
                                        data |-> call[c].images[call[c].i]]),
                  !.results = Append(@, [path |-> call[c].outputPath])]
     IN Set(c, IF cr.i < Len(cr.images) THEN UpscaleIteration(cr, cr.i + 1)
               ELSE Return(cr, cr.results))
  /\ UNCHANGED << img2img, unhandled, dirs, uuids >>

\* ------------------------------------------------------------ hires_fix_image

CallHiresFixImage(c, arguments) ==
  /\ call[c].pc = "idle"
  /\ LET cr == Request(call[c], "hires_fix_image", arguments)
         v == isHiresFixImageArgs(arguments)
     IN Set(c, IF ~v.ok THEN Throw([cr EXCEPT !.rejected = TRUE], InvalidParams)
               ELSE Await(cr, "readFile", "hires_readFile"))
  /\ UNCHANGED << img2img, unhandled, dirs, files, uuids >>

HiresReadFail(c) ==
  /\ call[c].pc = "hires_readFile"
  /\ Set(c, Throw(call[c], Error(<< "ENOENT" >>)))
  /\ UNCHANGED << img2img, unhandled, dirs, files, uuids >>

\* the source is read; sharp is asked for its metadata
HiresReadDone(c) ==
  /\ call[c].pc = "hires_readFile"
  /\ Set(c, [call[c] EXCEPT !.pc = "metadata"])
  /\ UNCHANGED << img2img, unhandled, dirs, files, uuids >>

\* the width and height sharp reports (undefined when it knows none)
Metadatas ==
  { [width |-> Num(Dec(512, 0)), height |-> Num(Dec(768, 0))],
    [width |-> Num(Dec(3, 0)), height |-> Undefined] }

\* the bytes are no image sharp can read
MetadataFail(c) ==
  /\ call[c].pc = "metadata"
  /\ Set(c, Throw(call[c], Error(<< "unsupported image format" >>)))
  /\ UNCHANGED << img2img, unhandled, dirs, files, uuids >>

MetadataDone(c, metadata) ==
  /\ call[c].pc = "metadata"
  /\ Set(c, Await([call[c] EXCEPT !.metadata = metadata], "POST png-info", "hires_pnginfo"))
  /\ UNCHANGED << img2img, unhandled, dirs, files, uuids >>

\* the img2img request awaited: settled when the handler returns
AwaitedRequest == "resolved"

\* no .catch handler: the rejection reaches the unhandledRejection listener
NoCatchHandler(n) == n + 1

\* the state of the img2img request when the handler returns: posted, not
\* awaited
FireAndForget == "outstanding"

\* the empty .catch handler: the count of unhandled rejections after the
\* img2img promise rejects
IgnoreRejection(n) == n

\* from the recovered prompt to the return: the payload is built, the
\* img2img request is posted and the handler returns its message
HiresReturn(cr, info, prompt) ==
  LET base64Image == << "data:image/png;base64," >> \o Prop(cr.args, "image_path").s
      targetWidth == targetSize(cr.metadata.width, cr.args)
      targetHeight == targetSize(cr.metadata.height, cr.args)
      sent == [cr EXCEPT !.info = info,
                         !.payload = Img2ImgPayload(cr.args, base64Image, prompt,
                                                    targetWidth, targetHeight),
                         !.io = Append(@, "POST img2img")]
  IN Return(sent, [scale |-> OrElse(Prop(cr.args, "hr_scale"), Num(Dec(2, 0))),
                   from |-> cr.metadata,
                   to |-> [width |-> targetWidth, height |-> targetHeight]])

\* the png-info request fails: the catch block leaves the prompt empty
HiresPngInfoFail(c, shape) ==
  /\ call[c].pc = "hires_pnginfo"
  /\ Set(c, HiresReturn(call[c], AxiosError(shape), << >>))
  /\ img2img' = [img2img EXCEPT ![c] = FireAndForget]
  /\ UNCHANGED << unhandled, dirs, files, uuids >>

HiresPngInfoDone(c, data) ==
  /\ call[c].pc = "hires_pnginfo"
  /\ Set(c, HiresReturn(call[c], data, extractPrompt(data)))
  /\ img2img' = [img2img EXCEPT ![c] = FireAndForget]
  /\ UNCHANGED << unhandled, dirs, files, uuids >>

\* the remote service answers the img2img request; nothing reads the answer
Img2ImgResolve(c) ==
  /\ img2img[c] = "outstanding"
  /\ img2img' = [img2img EXCEPT ![c] = "resolved"]
  /\ UNCHANGED << call, unhandled, dirs, files, uuids >>

\* the img2img request fails or runs into its 1000 ms timeout
Img2ImgReject(c, shape) ==
  /\ img2img[c] = "outstanding"
  /\ img2img' = [img2img EXCEPT ![c] = "rejected"]
  /\ unhandled' = IgnoreRejection(unhandled)
  /\ UNCHANGED << call, dirs, files, uuids >>

\* ------------------------------------------------------------ more inputs

ImagePaths ==
  { Str(<< "a", ".png" >>), Str(<< "d", "/", "a", ".png" >>), Str(<< "b", ".png" >>) }

\* the lists of at most MaxImages input paths
ImagePathLists == UNION { [1..n -> ImagePaths] : n \in 0..MaxImages }

UpscaleBases ==
  { With(EmptyObject, "images", Arr(l)) : l \in ImagePathLists }

UpscaleImagesInputs ==
  NonObjects
  \union UpscaleBases
  \union { With(EmptyObject, "images", v) :
             v \in { Undefined, S("a"), Arr(<< S("a"), Num(Dec(5, 0)) >>) } }
  \union { With(With(EmptyObject, "images", Arr(<< Str(<< "a", ".png" >>) >>)), k, v) :
             k \in { "upscaling_resize", "upscaling_resize_w", "upscaling_resize_h" },
             v \in { Num(0), Num(Dec(1, 5)), Num(Dec(2, 0)), S("2"), S("0"), S("x"),
                     Null, Bool(TRUE) } }
  \union { With(With(EmptyObject, "images", Arr(<< Str(<< "a", ".png" >>) >>)),
                "resize_mode", v) :
             v \in { S("0"), S("1"), S("2"), Str(<< " ", "1" >>), Num(0), Num(Dec(1, 0)),
                     Null, Bool(TRUE) } }
  \union { With(With(EmptyObject, "images", Arr(<< Str(<< "a", ".png" >>) >>)), k, v) :
             k \in { "upscaler_1", "upscaler_2" },
             v \in { S("Lanczos"), Str(<< >>), Num(Dec(1, 0)), Null } }
  \union { With(With(EmptyObject, "images", Arr(<< Str(<< "a", ".png" >>) >>)),
                "output_path", v) :
             v \in OutputPaths \union { Num(Dec(5, 0)) } }

HiresBase == With(EmptyObject, "image_path", Str(<< "a", ".png" >>))

HiresFixImageInputs ==
  NonObjects
  \union { With(EmptyObject, "image_path", v) : v \in { Undefined, Num(Dec(1, 0)) } }
  \union { With(With(HiresBase, "hr_scale", h), "denoising_strength", d) :
             h \in { Undefined, Num(0), Num(Dec(1, 0)), Num(Dec(1, 5)), Num(Dec(4, 0)),
                     Num(Dec(4, 1)), S("2"), S("x") },
             d \in { Undefined, Num(0), Num(Dec(0, 5)), Num(Dec(1, 0)), Num(Dec(1, 1)),
                     Num(0 - Dec(0, 1)), S("0"), S("1"), S("x") } }
  \union { With(HiresBase, "steps", v) :
             v \in { Num(0), Num(Dec(1, 0)), Num(Dec(30, 0)), Num(Dec(151, 0)),
                     Str(<< "3", "0" >>), S("x") } }
  \union { With(HiresBase, "hr_upscaler", v) : v \in { S("Latent"), Num(Dec(1, 0)) } }

UnknownNames == { "frobnicate", "", "GENERATE_IMAGE" }

\* ------------------------------------------------------------ specification

\* the steps of request c
Step(c) ==
  \/ \E a \in GenerateImageInputs : CallGenerateImage(c, a)
  \/ \E a \in { Undefined, EmptyObject } : CallGetSdModels(c, a)
  \/ \E a \in SetModelInputs : CallSetSdModel(c, a)
  \/ \E a \in { Undefined, EmptyObject } : CallGetSdUpscalers(c, a)
  \/ \E a \in UpscaleImagesInputs : CallUpscaleImages(c, a)
  \/ \E a \in HiresFixImageInputs : CallHiresFixImage(c, a)
  \/ \E n \in UnknownNames, a \in NonObjects \union { EmptyObject,
                                          With(EmptyObject, "prompt", S("p")) } :
       CallUnknownTool(c, n, a)
  \/ AccessFound(c)
  \/ AccessMissing(c)
  \/ MkdirOk(c)
  \/ MkdirFail(c)
  \/ \E k \in AxiosShapes : Txt2ImgFail(c, k)
  \/ \E d \in ImagesBodies : Txt2ImgDone(c, d)
  \/ \E k \in AxiosShapes : GeneratePngInfoFail(c, k)
  \/ \E d \in { Undefined, [t |-> "object", info |-> S("parameters")] } :
       GeneratePngInfoDone(c, d)
  \/ ToFileFail(c)
  \/ ToFileDone(c)
  \/ \E d \in ListingBodies : ListingDone(c, d)
  \/ \E k \in AxiosShapes : ListingFail(c, k)
  \/ OptionsDone(c)
  \/ \E k \in AxiosShapes : OptionsFail(c, k)
  \/ ReadFilesFail(c)
  \/ ReadFilesDone(c)
  \/ \E k \in AxiosShapes : ExtraBatchFail(c, k)
  \/ \E d \in ImagesBodies : ExtraBatchDone(c, d)
  \/ WriteFileFail(c)
  \/ WriteFileDone(c)
  \/ HiresReadFail(c)
  \/ HiresReadDone(c)
  \/ MetadataFail(c)
  \/ \E m \in Metadatas : MetadataDone(c, m)
  \/ \E k \in AxiosShapes : HiresPngInfoFail(c, k)
  \/ \E d \in PngInfoBodies : HiresPngInfoDone(c, d)
  \/ Img2ImgResolve(c)
  \/ \E k \in AxiosShapes : Img2ImgReject(c, k)

\* one request at a time
Next == Step(1)

Spec == Init /\ [][Next]_vars

\* ------------------------------------------------------------ requests in flight together

\* output_path values: absent, and two spellings of the directory a/b
ConcOutputPaths ==
  { Undefined, Str(<< " ", "a", "/", "b", " " >>), Str(<< "a", "/", "b", "/" >>) }

ConcGenerateInputs ==
  { With(With(EmptyObject, "prompt", S("p")), "output_path", o) : o \in ConcOutputPaths }

ConcUpscaleInputs ==
  { With(With(EmptyObject, "images", Arr(<< Str(<< "a", ".png" >>) >>)),
         "output_path", o) : o \in ConcOutputPaths }

\* the remote answers: one image
ConcImagesBodies == { [t |-> "object", images |-> Arr(<< << "iVBOR" >> >>)] }

\* the steps of a generate_image or upscale_images call
ConcStep(c) ==
  \/ \E a \in ConcGenerateInputs : CallGenerateImage(c, a)
  \/ \E a \in ConcUpscaleInputs : CallUpscaleImages(c, a)
  \/ AccessFound(c)
  \/ AccessMissing(c)
  \/ MkdirOk(c)
  \/ MkdirFail(c)
  \/ \E k \in AxiosShapes : Txt2ImgFail(c, k)
  \/ \E d \in ConcImagesBodies : Txt2ImgDone(c, d)
  \/ \E k \in AxiosShapes : GeneratePngInfoFail(c, k)
  \/ GeneratePngInfoDone(c, [t |-> "object", info |-> S("parameters")])
  \/ ToFileFail(c)
  \/ ToFileDone(c)
  \/ ReadFilesFail(c)
  \/ ReadFilesDone(c)
  \/ \E k \in AxiosShapes : ExtraBatchFail(c, k)
  \/ \E d \in ConcImagesBodies : ExtraBatchDone(c, d)
  \/ WriteFileFail(c)
  \/ WriteFileDone(c)

\* the handler runs once per request; the requests interleave at each await
NextConc == \E c \in Calls : ConcStep(c)

SpecConc == Init /\ [][NextConc]_vars

\* ------------------------------------------------------------ claims

Done(c) == call[c].pc = "done"

Failed(c) == Done(c) /\ ~call[c].result.ok

\* the error code that leaves the handler
Code(c) == call[c].result.error.code

\* C1: a call of a name outside the catalog fails with the method-not-found
\* code, never with the internal-error code.
C1_UnknownToolIsMethodNotFound ==
  \A c \in Calls :
    (Done(c) /\ call[c].name \notin ToolNames)
      => (Failed(c) /\ Code(c) = "MethodNotFound" /\ Code(c) # "InternalError")

\* C2: when the validator of generate_image, set_sd_model, upscale_images or
\* hires_fix_image rejects the arguments, the error leaving the handler has
\* the invalid-parameters code.
C2_RejectionIsInvalidParams ==
  \A c \in Calls :
    call[c].rejected => (Failed(c) /\ Code(c) = "InvalidParams")

IsHttp(op) ==
  op \in { "POST txt2img", "POST png-info", "GET sd-models", "POST options",
           "GET upscalers", "POST extra-batch-images", "POST img2img" }

IsFileSystem(op) == op \in { "access", "mkdir", "readFile", "writeFile", "toFile" }

\* C3: a call whose arguments the validator rejects has issued no HTTP
\* request and no file system operation when its error is raised.
C3_RejectionBeforeAnyIO ==
  \A c \in Calls :
    call[c].rejected =>
      /\ Failed(c)
      /\ call[c].thrown = InvalidParams
      /\ \A k \in 1..Len(call[c].io) :
           ~IsHttp(call[c].io[k]) /\ ~IsFileSystem(call[c].io[k])
      /\ call[c].writes = << >>
      /\ img2img[c] = "none"

C3_Witness ==
  \E c \in Calls :
    /\ call[c].rejected
    /\ call[c].name = "generate_image"
    /\ Prop(call[c].arguments, "steps") = Num(Dec(151, 0))

\* hires_fix_image has returned its descriptive message
HiresReturned(c) ==
  call[c].name = "hires_fix_image" /\ Done(c) /\ call[c].result.ok

\* C4: hires_fix_image returns its success message while the img2img
\* request is outstanding; once the png-info request settles the very next
\* step of the call is that return, and whatever the img2img request does
\* afterwards leaves the returned result as it is.
C4_HiresReturnsWithoutWaiting ==
  [][\A c \in Calls :
       /\ (~HiresReturned(c) /\ HiresReturned(c)')
            => (img2img[c] = "none" /\ img2img'[c] = "outstanding")
       /\ (call[c].pc = "hires_pnginfo" /\ call'[c] # call[c]) => HiresReturned(c)'
       /\ HiresReturned(c) => call'[c] = call[c]]_vars

C4_Witness ==
  \E c \in Calls :
    /\ HiresReturned(c)
    /\ img2img[c] = "outstanding"
    /\ call[c].io = << "readFile", "POST png-info", "POST img2img" >>

\* the marker "\nNegative prompt:" or "Steps:" stands somewhere after at
\* least one character of the text
HasPromptMarker(text) ==
  \E k \in 2..Len(text) :
    \/ text[k] = "Steps:"
    \/ k < Len(text) /\ text[k] = "NL" /\ text[k + 1] = "Negative prompt:"

\* the png-info lookup of a hires_fix_image call gave a text with a prompt
MetadataRecovered(c) ==
  /\ "t" \in DOMAIN call[c].info
  /\ call[c].info.t = "object"
  /\ call[c].info.info.t = "string"
  /\ HasPromptMarker(call[c].info.info.s)

\* C5: in hires_fix_image a failed png-info lookup or a text without the
\* prompt pattern leaves the prompt empty and the call goes on to its
\* success message; a failed or timed-out img2img request gives the caller
\* no error and the process no unhandled rejection.
C5_SuppressedFailuresNeverSurface ==
  \A c \in Calls :
    /\ (call[c].name = "hires_fix_image" /\ call[c].payload # Undefined
          /\ ~MetadataRecovered(c))
         => (HiresReturned(c) /\ call[c].payload.prompt = Str(<< >>))
    /\ img2img[c] = "rejected" => HiresReturned(c)
    /\ unhandled = 0

C5_Witness ==
  \E c \in Calls :
    /\ HiresReturned(c)
    /\ "kind" \in DOMAIN call[c].info
    /\ call[c].info.kind = "AxiosError"
    /\ img2img[c] = "rejected"

\* the remote answer carried no images field or an empty list
EmptyImagesResponse(c) ==
  /\ call[c].response # Undefined
  /\ call[c].response # Null
  /\ call[c].response.images \in { Undefined, Arr(<< >>) }

\* C6: an answer to txt2img or extra-batch-images with no images fails the
\* call with 'No images generated' / 'No images upscaled', and the call has
\* started no file write.
C6_EmptyResponseFailsBeforeWrites ==
  \A c \in Calls :
    EmptyImagesResponse(c) =>
      /\ Failed(c)
      /\ call[c].thrown =
           Error(IF call[c].name = "generate_image" THEN << "No images generated" >>
                 ELSE << "No images upscaled" >>)
      /\ call[c].writes = << >>
      /\ \A k \in 1..Len(call[c].io) : call[c].io[k] \notin { "toFile", "writeFile" }

C6_Witness ==
  \E c \in Calls :
    /\ call[c].name = "upscale_images"
    /\ call[c].response # Undefined
    /\ call[c].response # Null
    /\ call[c].response.images = Arr(<< >>)
    /\ call[c].thrown = Error(<< "No images upscaled" >>)
    /\ "mkdir" \in { call[c].io[k] : k \in 1..Len(call[c].io) }

\* the input paths of an upscale_images call
Inputs(c) == Prop(call[c].arguments, "images").a

\* the i-th file the call wrote holds the i-th returned image and is
\* upscaled_<basename of the i-th input path> in the output directory
WrittenAsInput(c, i) ==
  /\ i <= Len(Inputs(c))
  /\ call[c].writes[i].data = call[c].response.images.a[i]
  /\ dirname(call[c].writes[i].path) = DirKey(call[c].outputDir)
  /\ basename(call[c].writes[i].path) = << "upscaled_" >> \o basename(Inputs(c)[i].s)

\* the call got a non-empty answer and ended without a failed write
UpscaleEnded(c) ==
  /\ call[c].name = "upscale_images"
  /\ Done(c)
  /\ Len(call[c].images) > 0
  /\ call[c].thrown # Error(<< "EIO" >>)

\* C7 as stated: for every length of the answer, also one longer than the
\* input list, each returned image is written under the name of the input
\* at its index and the result lists these paths in order.
C7_EveryResponseLength ==
  \A c \in Calls :
    UpscaleEnded(c) =>
      /\ call[c].result.ok
      /\ Len(call[c].writes) = Len(call[c].images)
      /\ \A i \in 1..Len(call[c].images) :
           WrittenAsInput(c, i) /\ call[c].result.text[i].path = call[c].writes[i].path

\* C7 amended: the correspondence holds for every answer no longer than the
\* input list; a longer answer has its first images written so, one per
\* input, and then fails the call with an internal error.
C7_UpscaleWritesInResponseOrder ==
  \A c \in Calls :
    call[c].name = "upscale_images" =>
      /\ Len(call[c].results) = Len(call[c].writes)
      /\ \A i \in 1..Len(call[c].writes) :
           WrittenAsInput(c, i) /\ call[c].results[i] = [path |-> call[c].writes[i].path]
      /\ UpscaleEnded(c) =>
           IF Len(call[c].images) <= Len(Inputs(c))
           THEN /\ call[c].result.ok
                /\ call[c].result.text = call[c].results
                /\ Len(call[c].writes) = Len(call[c].images)
           ELSE /\ Failed(c)
                /\ Code(c) = "InternalError"
                /\ Len(call[c].writes) = Len(Inputs(c))

C7_Witness ==
  \E c \in Calls :
    /\ UpscaleEnded(c)
    /\ call[c].result.ok
    /\ Len(call[c].writes) = 2
    /\ call[c].writes[1].path # call[c].writes[2].path

\* how often op was issued
Count(io, op) == Cardinality({ k \in 1..Len(io) : io[k] = op })

\* the position of the first op in io, Len(io) + 1 when there is none
First(io, ops) ==
  IF \E k \in 1..Len(io) : io[k] \in ops
  THEN CHOOSE k \in 1..Len(io) : io[k] \in ops /\ \A j \in 1..(k - 1) : io[j] \notin ops
  ELSE Len(io) + 1

\* the caller's output_path trimmed and normalized, else the default
ResolvedOutputDir(c) ==
  LET o == Prop(call[c].arguments, "output_path")
  IN IF TypeOf(o) = "string" /\ o.s # << >> THEN normalize(Trim(o.s))
     ELSE DEFAULT_OUTPUT_DIR

\* a file write of the call is under way or done
Writing(c) ==
  /\ call[c].name \in { "generate_image", "upscale_images" }
  /\ call[c].pc \in { "toFile", "writeFile" } \/ call[c].writes # << >>

\* C8: when generate_image or upscale_images starts its first file write the
\* resolved output directory and all its parents exist, the existence check
\* and the creation came before that write, and the call has invoked mkdir
\* at most once.
C8_DirectoryExistsBeforeFirstWrite ==
  \A c \in Calls :
    Writing(c) =>
      /\ call[c].outputDir = ResolvedOutputDir(c)
      /\ DirExists(ResolvedOutputDir(c))
      /\ \A k \in 1..Len(PathPrefixes(ResolvedOutputDir(c))) :
           DirExists(PathPrefixes(ResolvedOutputDir(c))[k])
      /\ Count(call[c].io, "mkdir") <= 1
      /\ First(call[c].io, { "access" }) < First(call[c].io, { "toFile", "writeFile" })
      /\ Count(call[c].io, "mkdir") = 1 =>
           First(call[c].io, { "mkdir" }) < First(call[c].io, { "toFile", "writeFile" })

C8_Witness ==
  \E c \in Calls :
    /\ call[c].writes # << >>
    /\ Count(call[c].io, "mkdir") = 1
    /\ Len(PathPrefixes(call[c].outputDir)) = 2
    /\ Prop(call[c].arguments, "output_path") = Str(<< " ", "a", "/", "b", " " >>)

\* v is absent, or Number(v) lies in [lo, hi] (tenths)
AbsentOrWithin(v, lo, hi) ==
  \/ v = Undefined
  \/ /\ ToNumber(v) # NaN
     /\ lo <= ToNumber(v).n
     /\ ToNumber(v).n <= hi

\* a generate_image call whose arguments are an object with a string prompt
GenerateWithPrompt(c) ==
  /\ call[c].name = "generate_image"
  /\ call[c].arguments.t = "object"
  /\ Prop(call[c].arguments, "prompt").t = "string"

StepsAndBatchWithin(c) ==
  /\ AbsentOrWithin(Prop(call[c].arguments, "steps"), Dec(1, 0), Dec(150, 0))
  /\ AbsentOrWithin(Prop(call[c].arguments, "batch_size"), Dec(1, 0), Dec(4, 0))

\* C9 as stated: with a string prompt the validator accepts exactly when
\* steps and batch_size are each absent or coerce into their range.
C9_AcceptsExactlyWithinRanges ==
  \A c \in Calls :
    GenerateWithPrompt(c) => (~call[c].rejected <=> StepsAndBatchWithin(c))

\* C9 amended: with a string prompt the validator accepts exactly when
\* negative_prompt is absent or a string and steps and batch_size are each
\* absent or coerce into their range; a rejected call never posts txt2img.
C9_AcceptsWithinRangesAndStringNegative ==
  \A c \in Calls :
    GenerateWithPrompt(c) =>
      /\ ~call[c].rejected <=>
           /\ Prop(call[c].arguments, "negative_prompt").t \in { "undefined", "string" }
           /\ StepsAndBatchWithin(c)
      /\ call[c].rejected => Count(call[c].io, "POST txt2img") = 0

C9_Witness ==
  \E c \in Calls :
    /\ GenerateWithPrompt(c)
    /\ call[c].rejected
    /\ Prop(call[c].arguments, "steps") = Str(<< "1", "5", "1" >>)
    /\ Prop(call[c].arguments, "batch_size") = Num(Dec(4, 0))
    /\ Prop(call[c].arguments, "negative_prompt") = Undefined

\* C10: each payload field for which the caller supplied a number carries
\* that number (the default stands in only for an absent field): cfg_scale,
\* width, height, distilled_cfg_scale and seed of txt2img, and
\* denoising_strength of img2img.
C10_SuppliedValuesReachPayload ==
  \A c \in Calls :
    call[c].payload # Undefined =>
      /\ call[c].name = "generate_image" =>
           \A k \in { "cfg_scale", "width", "height", "distilled_cfg_scale", "seed" } :
             Prop(call[c].arguments, k).t = "number"
               => call[c].payload[k] = Prop(call[c].arguments, k)
      /\ call[c].name = "hires_fix_image" =>
           (Prop(call[c].arguments, "denoising_strength").t = "number"
              => call[c].payload.denoising_strength
                   = Prop(call[c].arguments, "denoising_strength"))

\* an upscale_images call whose arguments the validator accepted
UpscaleAccepted(c) ==
  call[c].name = "upscale_images" /\ ~call[c].rejected

\* C11: every upscale_images call that passes validation has a non-empty
\* images list, so no extra-batch-images request goes out with an empty
\* imageList.
C11_AcceptedImagesNonEmpty ==
  \A c \in Calls :
    UpscaleAccepted(c) =>
      /\ Len(Inputs(c)) > 0
      /\ Count(call[c].io, "POST extra-batch-images") > 0
           => call[c].payload.imageList # << >>

\* C12: in upscale_images a resize_mode of "1" reaches the payload as the
\* number 1 and "0" as the number 0; any other supplied value (another
\* string, a number such as 0 or 1, null, a boolean) is rejected by the
\* validator; an absent resize_mode gives the configured default.
C12_ResizeModeStringToInteger ==
  \A c \in Calls :
    call[c].name = "upscale_images" =>
      LET mode == Prop(call[c].arguments, "resize_mode")
      IN /\ mode \notin { Undefined, S("0"), S("1") } => call[c].rejected
         /\ call[c].payload # Undefined =>
              call[c].payload.resize_mode =
                CASE mode = S("1") -> Num(Dec(1, 0))
                  [] mode = S("0") -> Num(Dec(0, 0))
                  [] mode = Undefined -> SD_RESIZE_MODE

C12_Witness ==
  \E c \in Calls :
    /\ call[c].name = "upscale_images"
    /\ Prop(call[c].arguments, "resize_mode") = S("1")
    /\ Count(call[c].io, "POST extra-batch-images") = 1
    /\ call[c].payload.resize_mode = Num(Dec(1, 0))

\* the argument fields of a tool that its validator tests as numbers
NumericFields(name) ==
  CASE name = "generate_image" -> { "steps", "batch_size" }
    [] name = "upscale_images" ->
         { "upscaling_resize", "upscaling_resize_w", "upscaling_resize_h" }
    [] name = "hires_fix_image" -> { "hr_scale", "denoising_strength", "steps" }

\* the payload fields these arguments go into
NumericPayloadFields(name) ==
  CASE name = "generate_image" -> { "steps", "n_iter" }
    [] name = "upscale_images" ->
         { "upscaling_resize", "upscaling_resize_w", "upscaling_resize_h" }
    [] name = "hires_fix_image" -> { "width", "height", "denoising_strength", "steps" }

\* C13: once the validator of generate_image, upscale_images or
\* hires_fix_image has accepted, every numeric field that came as a numeric
\* string stands in the arguments as its number, and every numeric field of
\* the payload built from them has type number.
C13_NumericStringsCoercedInPlace ==
  \A c \in Calls :
    (call[c].name \in { "generate_image", "upscale_images", "hires_fix_image" }
       /\ call[c].args # Undefined /\ ~call[c].rejected) =>
      /\ \A k \in NumericFields(call[c].name) :
           Prop(call[c].arguments, k).t = "string"
             => Prop(call[c].args, k) = ToNumber(Prop(call[c].arguments, k))
      /\ call[c].payload # Undefined =>
           \A k \in NumericPayloadFields(call[c].name) :
             call[c].payload[k].t = "number"

\* C14: within one generate_image or upscale_images call no file is
\* written twice: the paths the call writes to are pairwise distinct, also
\* when two inputs of upscale_images have the same base name.
C14_OutputPathsPairwiseDistinct ==
  \A c \in Calls :
    call[c].name \in { "generate_image", "upscale_images" } =>
      \A i, j \in 1..Len(call[c].writes) :
        i # j => call[c].writes[i].path # call[c].writes[j].path

\* the call ended with an error out of ensureDirectoryExists
FailedAtDirectoryStep(c) ==
  /\ Failed(c)
  /\ call[c].io # << >>
  /\ call[c].io[Len(call[c].io)] \in { "access", "mkdir" }

\* C15: with two image-producing calls in flight towards the same output
\* directory, in whatever order their existence checks and creations fall,
\* neither call fails at the directory step because of the other (a mkdir
\* that finds the directory made meanwhile succeeds; the only failure is
\* the file system refusing the creation itself), and the directory with
\* its parents exists when either call starts its first file write.
C15_ConcurrentEnsureDirectory ==
  \A c \in Calls :
    /\ call[c].thrown # Error(<< "EEXIST" >>)
    /\ FailedAtDirectoryStep(c) => call[c].thrown = Error(<< "EACCES" >>)
    /\ Writing(c) =>
         /\ DirExists(call[c].outputDir)
         /\ \A k \in 1..Len(PathPrefixes(call[c].outputDir)) :
              DirExists(PathPrefixes(call[c].outputDir)[k])

\* both calls found the directory missing, both called mkdir, both wrote
C15_Witness ==
  /\ call[1].name = "generate_image"
  /\ call[2].name = "upscale_images"
  /\ DirKey(call[1].outputDir) = DirKey(call[2].outputDir)
  /\ call[1].outputDir # call[2].outputDir
  /\ \A c \in Calls :
       /\ Count(call[c].io, "mkdir") = 1
       /\ call[c].writes # << >>

====
